---- MODULE Spec2Model ----
(***************************************************************************)
(* A model of leds.py: frame buffers with a write and a committed          *)
(* generation, the priority renderer, LED programs with cooperative        *)
(* cancellation, the program runner threads, the MainLedThread supervisor  *)
(* that hot-swaps the program of the main frame, the message handler and   *)
(* the UDP server program.                                                 *)
(*                                                                         *)
(* The threads of the program are independent except through the frames,   *)
(* so the module states several specifications, each the composition of    *)
(* the threads a group of properties is about:                             *)
(*   SpecFrame   renderer, clock and the program thread of the main frame  *)
(*   SpecRender  renderer, clock and the UDP server programs               *)
(*   Spec        message handler, supervisor and runner threads            *)
(*   SpecUDP     the UDP server program of the net frame                   *)
(*   SpecCodec   rgb_to_24bit applied to channel values                    *)
(*   SpecCtl     brightness and rainbow parameter messages, the rainbow    *)
(*               program                                                   *)
(*   SpecPicker  picker/json messages, the pixel picker program, a swap    *)
(*   SpecRoot    root messages as sent, the supervisor and the runners     *)
(*   SpecChase   chase messages, the chase program, a swap                 *)
(***************************************************************************)
EXTENDS Integers, Sequences, FiniteSets, TLC

\* ------------------------------------------------------------- bounds
\* Pixels per frame (776 in the program).
Pixels == 2
\* The clock runs from StartTime to StartTime + Horizon seconds.
Horizon == 6
\* Messages on the root topic that the handler receives.
MaxMsgs == 2
\* Datagrams the UDP server programs receive, in total.
MaxDatagrams == 3
\* Hue steps of one Rainbow.loop (360 in the program).
HueSteps == 2
\* Messages on the brightness and rainbow topics that the handler receives.
MaxCtl == 2
\* Messages on the picker/json topic that the handler receives.
MaxPosts == 2

\* ---------------------------------------------------------- constants
TimeoutNet == 1
TimeoutMusic == 1
TimeoutMain == 5
\* time.time() when the process starts: late enough after the epoch that a
\* frame whose last_write is still 0 has timed out, as on any real clock.
StartTime == TimeoutMain

PixelIdx == 0..(Pixels - 1)

\* Frame objects created at module level; the renderer polls RenderList.
Frames == {"net", "music", "main", "fallback"}
RenderList == <<"net", "music", "main">>
HasTimeout(f) == f /= "fallback"
Timeout(f) == CASE f = "net" -> TimeoutNet
                [] f = "music" -> TimeoutMusic
                [] f = "main" -> TimeoutMain

\* Program objects: the presets are singletons, a StaticColour is constructed
\* per root message that names a colour.
None == <<"none", 0>>
PresetNames == {"rainbow", "emergency", "pixelpicker", "chase"}
presets == [n \in PresetNames |-> <<n, 0>>]
StaticIds == {<<"static", k>> : k \in 1..MaxMsgs}
ProgramIds == {presets[n] : n \in PresetNames} \cup StaticIds
Kind(p) == p[1]

\* Runner threads the supervisor creates, numbered in creation order.
MaxThreads == MaxMsgs + 1
Threads == 1..MaxThreads
Servers == {"net", "music"}

VARIABLES
    brightness_pct,  \* global brightness percentage
    now,             \* time.time(), in seconds
    last_write,      \* Frame.last_write, per frame
    data,            \* Frame.data, the write generation, per frame
    data2,           \* Frame.data2, the committed generation, per frame
    frame_ready,     \* Frame.frame_ready (an Event), per frame
    r_pc,            \* Renderer: position
    r_idx,           \* Renderer: index in self.frames of the frame at hand
    r_i,             \* Renderer: pixel index inside render_strip
    strip_buf,       \* the strip's pixel buffer (setPixelColor)
    shown,           \* what the strip displays (the last strip.show())
    exit_requested,  \* LedProgram.exit_requested, per program object
    args,            \* LedProgram.args of a StaticColour: its colour
    colour,          \* StaticColour.colour
    rb_multiplier,   \* Rainbow.multiplier of presets["rainbow"]
    rb_speed,        \* Rainbow.speed of presets["rainbow"]
    em_red,          \* Emergency.red of presets["emergency"]
    em_blue,         \* Emergency.blue of presets["emergency"]
    new_program,     \* MainLedThread.new_program
    progthread,      \* MainLedThread.progthread (0: None)
    sup_pc,          \* MainLedThread: position in loop()
    nthreads,        \* runner threads created so far
    t_pc,            \* runner thread: position
    t_prog,          \* runner thread: ProgramRunnerThread.program
    t_loc,           \* runner thread: loop variable of the program's loop()
    t_exc,           \* runner thread: exception being raised
    t_end,           \* runner thread: how run() ended
    msgs,            \* root messages handled so far
    s_pc,            \* UDP server program: position, per server frame
    rx_log,          \* UDP server program: datagrams received, per frame
    \* history variables, read by the properties only
    commits,         \* per frame, every generation ever committed
    commit_time,     \* per frame, the time stamp of the latest commit
    commit_count,    \* per server frame, the number of commits
    seen,            \* liveness of the frames scanned so far in this tick
    flushed,         \* the frame of the latest strip.show(), or "none"
    submitted,       \* the programs submitted, in order (main()'s is the first)
    new_seq,         \* the number of the submit that wrote new_program last
    started_log,     \* the submit numbers of the runners started, in order
    late_commit,     \* a runner committed after a later runner was started
    flush_count,     \* per server frame, the number of strip.show() calls
    \* the message handler's parameter topics and the pixel picker
    ctl_log,         \* the brightness and rainbow messages handled, in order
    pk_data,         \* PixelPicker.data of presets["pixelpicker"]
    pk_iter,         \* PixelPicker.loop: the keys the for loop has yet to visit
    pk_log,          \* the picker/json messages handled, in order
    \* the codec applied to channel values
    enc_in,          \* the arguments of the latest rgb_to_24bit call, or None
    enc_out,         \* its result
    \* the chase program and the MQTT loop
    ch_n,            \* Chase.n of presets["chase"]
    ch_speed,        \* Chase.speed of presets["chase"]
    ch_stop,         \* Chase.loop: the stop of the range the for loop iterates
    mqtt_loop        \* m.loop_forever() in main: "running" or "raised"

frameVars == <<last_write, data, data2, frame_ready>>
frameHist == <<commits, commit_time, commit_count>>
rendVars == <<r_pc, r_idx, r_i, strip_buf, shown, seen, flushed, flush_count>>
progVars == <<exit_requested, args, colour, rb_multiplier, rb_speed, em_red, em_blue>>
supVars == <<new_program, progthread, sup_pc, nthreads>>
thrVars == <<t_pc, t_prog, t_loc, t_exc, t_end>>
msgVars == <<msgs, submitted, new_seq>>
srvVars == <<s_pc, rx_log>>
swapHist == <<started_log, late_commit>>
ctlVars == <<ctl_log, pk_data, pk_iter, pk_log, enc_in, enc_out>>
chaseVars == <<ch_n, ch_speed, ch_stop>>
vars == <<brightness_pct, now, frameVars, frameHist, rendVars, progVars, supVars,
          thrVars, msgVars, srvVars, swapHist, ctlVars, chaseVars, mqtt_loop>>

\* ------------------------------------------------------- colour codec
\* int(channel * (brightness_pct/100)) is float arithmetic: the quotient and
\* the product are each rounded to the nearest number of 53 significant bits,
\* ties to even. The operators below compute them on numbers scaled by 2^60
\* and held in four limbs of 20 bits, the first one the most significant.
Limb == 2^20

\* Four limbs. The operators on limbs are functions: a function is applied
\* to the value of its argument, computed once.
Limbs == Nat \X Nat \X Nat \X Nat

\* The number of bits of a natural number below 2^22.
BitLen[v \in Nat] == CHOOSE n \in 0..22 : v < 2^n /\ (n = 0 \/ v >= 2^(n - 1))

BitLen4[p \in Limbs] ==
    IF p[1] > 0 THEN 60 + BitLen[p[1]]
    ELSE IF p[2] > 0 THEN 40 + BitLen[p[2]]
    ELSE IF p[3] > 0 THEN 20 + BitLen[p[3]]
    ELSE BitLen[p[4]]

\* The limbs after the carries are propagated.
Carry[p \in Limbs] ==
    LET c2 == p[3] + (p[4] \div Limb)
        c1 == p[2] + (c2 \div Limb)
    IN <<p[1] + (c1 \div Limb), c1 % Limb, c2 % Limb, p[4] % Limb>>

\* p rounded to the nearest multiple of 2^k, 0 < k < 20, ties to even;
\* sticky: the exact number is above p.
RoundTo[p \in Limbs, k \in 1..19, sticky \in BOOLEAN] ==
    LET low == p[4] % (2^k)
        odd == (p[4] \div (2^k)) % 2
        up == IF low > 2^(k - 1) \/ (low = 2^(k - 1) /\ (sticky \/ odd = 1))
              THEN 2^k ELSE 0
    IN Carry[<<p[1], p[2], p[3], p[4] - low + up>>]

\* p rounded to 53 significant bits.
Round53[p \in Limbs, sticky \in BOOLEAN] ==
    IF BitLen4[p] <= 53 THEN p ELSE RoundTo[p, BitLen4[p] - 53, sticky]

\* brightness_pct/100, by long division, 20 bits at a time.
FloatQuotient[b \in Nat] ==
    LET r1 == (b * Limb) % 100
        r2 == (r1 * Limb) % 100
    IN Round53[Carry[<<0, (b * Limb) \div 100, (r1 * Limb) \div 100,
                       (r2 * Limb) \div 100>>],
               (r2 * Limb) % 100 > 0]

\* channel * (brightness_pct/100)
FloatProduct[c \in Nat, x \in Limbs] ==
    Round53[Carry[<<c * x[1], c * x[2], c * x[3], c * x[4]>>], FALSE]

\* int(channel * (brightness_pct/100)), for a channel in 0..255 and a
\* brightness in 0..100: the integer part is the first limb.
Scale(c, b) == FloatProduct[c, FloatQuotient[b]][1]

rgb_to_24bit(red, green, blue, white) ==
    Scale(white, brightness_pct) * 16777216
    + Scale(green, brightness_pct) * 65536
    + Scale(red, brightness_pct) * 256
    + Scale(blue, brightness_pct)

\* Channel values the codec is applied to; the white channel stays below
\* 128, the packed value below 2^31.
ChannelSamples == {0, 100, 200, 255}
WhiteSamples == {0, 100}

\* A call of rgb_to_24bit(red, green, blue, white), the first one of a
\* behaviour.
Encode(red, green, blue, white) ==
    /\ enc_in = None
    /\ enc_in' = <<red, green, blue, white>>
    /\ enc_out' = rgb_to_24bit(red, green, blue, white)
    /\ UNCHANGED <<brightness_pct, now, frameVars, frameHist, rendVars, progVars,
                   supVars, thrVars, msgVars, srvVars, swapHist, ctl_log, pk_data,
                   pk_iter, pk_log,
                   chaseVars, mqtt_loop>>

\* webcolors, for the names the model's messages use.
parse_colour(name) ==
    CASE name = "red" -> <<255, 0, 0>>
      [] name = "blue" -> <<0, 0, 255>>
      [] OTHER -> None

Blank == [i \in PixelIdx |-> 0]

\* ------------------------------------------------------- payload text
\* Payloads of the parameter topics: the text, one character per element,
\* and, for the properties, whether it is a number and which.
Numeral(text, valid, value) == [text |-> text, valid |-> valid, value |-> value]
BrightnessPayloads ==
    { Numeral(<<"5", "0">>, TRUE, 50), Numeral(<<"0">>, TRUE, 0),
      Numeral(<<"1", "0", "0">>, TRUE, 100), Numeral(<<"1", "0", "1">>, TRUE, 101),
      Numeral(<<"-", "1">>, TRUE, -1), Numeral(<<" ", "7">>, TRUE, 7),
      Numeral(<<"x">>, FALSE, 0), Numeral(<<>>, FALSE, 0),
      Numeral(<<"5", ".", "5">>, FALSE, 0) }
FloatPayloads ==
    { Numeral(<<"3">>, TRUE, 3), Numeral(<<"1">>, TRUE, 1),
      Numeral(<<"x">>, FALSE, 0) }

DigitChars == <<"0", "1", "2", "3", "4", "5", "6", "7", "8", "9">>
IsDigit(ch) == \E n \in 1..10 : DigitChars[n] = ch
DigitVal(ch) == (CHOOSE n \in 1..10 : DigitChars[n] = ch) - 1

RECURSIVE DigitsValue(_)
DigitsValue(t) ==
    IF t = <<>> THEN 0
    ELSE DigitsValue(SubSeq(t, 1, Len(t) - 1)) * 10 + DigitVal(t[Len(t)])

\* int(message.payload): blanks around the number are skipped, a sign may
\* lead, decimal digits follow; anything else raises ValueError.
ParseInt(text) ==
    LET inked == {i \in 1..Len(text) : text[i] /= " "}
        lo == CHOOSE i \in inked : \A j \in inked : i <= j
        hi == CHOOSE i \in inked : \A j \in inked : j <= i
        t == IF inked = {} THEN <<>> ELSE SubSeq(text, lo, hi)
        signed == t /= <<>> /\ t[1] \in {"+", "-"}
        digits == IF signed THEN Tail(t) ELSE t
    IN IF digits = <<>> \/ \E i \in 1..Len(digits) : ~IsDigit(digits[i])
       THEN <<"ValueError", 0>>
       ELSE <<"ok", IF signed /\ t[1] = "-" THEN 0 - DigitsValue(digits)
                   ELSE DigitsValue(digits)>>

\* float(message.payload), for the payloads of the model: integer numerals
\* and texts that are no number.
ParseFloat(text) == ParseInt(text)

\* ------------------------------------------------------------- Frame
\* Frame.set_pixel: an index outside the list raises IndexError, which is
\* swallowed; a negative index in -size..-1 addresses from the end.
Frame_set_pixel(d, pixel, c) ==
    IF pixel \in PixelIdx THEN [d EXCEPT ![pixel] = c]
    ELSE IF pixel < 0 /\ pixel + Pixels \in PixelIdx
         THEN [d EXCEPT ![pixel + Pixels] = c]
         ELSE d

Frame_set_all(d, c) == [i \in PixelIdx |-> c]

\* A show() that raises no signal.
Frame_show_set_never(f) == frame_ready' = frame_ready

\* Frame.show, one statement per step.
Frame_show_stamp(f) == last_write' = [last_write EXCEPT ![f] = now]
Frame_show_copy(f) == data2' = [data2 EXCEPT ![f] = data[f]]
Frame_show_set(f) == frame_ready' = [frame_ready EXCEPT ![f] = TRUE]

\* A frame still active when exactly the timeout has passed.
Frame_active_inclusive(f) ==
    IF ~HasTimeout(f) THEN TRUE
    ELSE IF now - last_write[f] <= Timeout(f) THEN TRUE
    ELSE FALSE

\* Frame.active
Frame_active(f) ==
    IF ~HasTimeout(f) THEN TRUE
    ELSE IF now - last_write[f] < Timeout(f) THEN TRUE
    ELSE FALSE

\* The three statements of Frame.show as steps of the calling thread, with
\* the history each one leaves.
ShowStamp(f) ==
    /\ Frame_show_stamp(f)
    /\ commit_time' = [commit_time EXCEPT ![f] = now]
    /\ UNCHANGED <<data, data2, frame_ready, commits, commit_count>>

ShowCopy(f) ==
    /\ Frame_show_copy(f)
    /\ commits' = [commits EXCEPT ![f] = @ \cup {data2'[f]}]
    /\ commit_count' = IF f \in Servers
                       THEN [commit_count EXCEPT ![f] = @ + 1]
                       ELSE commit_count
    /\ UNCHANGED <<last_write, data, frame_ready, commit_time>>

ShowSet(f) ==
    /\ Frame_show_set(f)
    /\ UNCHANGED <<last_write, data, data2, frameHist>>

\* ----------------------------------------------------------- programs
\* colorsys.hsv_to_rgb(hue2/360.0, 1.0, 1.0) scaled to 0..255 and truncated,
\* for hue2 = n/Pixels degrees, in exact arithmetic.
HsvRgb(n) ==
    LET w == 60 * Pixels
        i == (n \div w) % 6
        t == ((n % w) * 255) \div w
        q == ((w - (n % w)) * 255) \div w
    IN CASE i = 0 -> <<255, t, 0>>
         [] i = 1 -> <<q, 255, 0>>
         [] i = 2 -> <<0, 255, t>>
         [] i = 3 -> <<0, q, 255>>
         [] i = 4 -> <<t, 0, 255>>
         [] i = 5 -> <<255, 0, q>>

\* Rainbow.loop, the pixels of one hue step:
\* hue2 = ((hue*speed) + (pixel*scaling)) % 360, scaling = 360/pixel_count*multiplier
RainbowPixel(hue, pixel) ==
    LET n == (hue * rb_speed * Pixels + pixel * 360 * rb_multiplier) % (360 * Pixels)
        c == HsvRgb(n)
    IN rgb_to_24bit(c[1], c[2], c[3], 0)

\* What one pass of the program's loop() writes to the write generation
\* before its show().
LoopBody(p, loc, d) ==
    CASE Kind(p) = "rainbow" -> [i \in PixelIdx |-> RainbowPixel(loc, i)]
      [] Kind(p) = "emergency" ->
            Frame_set_all(d, IF loc = 0 THEN em_blue ELSE em_red)
      [] Kind(p) = "static" -> Frame_set_all(d, colour[p])

\* The loop variable after the sleep() that ends a pass.
LoopNext(p, loc) ==
    CASE Kind(p) = "rainbow" -> (loc + 1) % HueSteps
      [] Kind(p) = "emergency" -> 1 - loc
      [] Kind(p) = "static" -> 0

\* A show() and sleep() without the check.
LedProgram_cancelled_never(p) == FALSE

\* LedProgram.show and LedProgram.sleep: the cancellation check.
LedProgram_cancelled(p) == exit_requested[p]

\* ----------------------------------------------------- runner threads
Alive(t) == t_pc[t] \notin {"unborn", "dead"}

\* LedProgram.run, first statement: the flag is reset.
ThRun(t) ==
    /\ t_pc[t] = "start"
    /\ exit_requested' = [exit_requested EXCEPT ![t_prog[t]] = FALSE]
    /\ t_pc' = [t_pc EXCEPT ![t] = "setup"]
    /\ UNCHANGED <<brightness_pct, now, frameVars, frameHist, rendVars, args, colour,
                   rb_multiplier, rb_speed, em_red, em_blue, supVars, t_prog, t_loc,
                   t_exc, t_end, msgVars, srvVars, swapHist,
                   ctlVars,
                   chaseVars, mqtt_loop>>

\* setup(*self.args) of Rainbow, Emergency and StaticColour.
ThSetup(t) ==
    LET p == t_prog[t] IN
    /\ t_pc[t] = "setup"
    /\ Kind(p) \notin {"pixelpicker", "chase"}
    /\ rb_multiplier' = IF Kind(p) = "rainbow" THEN 2 ELSE rb_multiplier
    /\ rb_speed' = IF Kind(p) = "rainbow" THEN 1 ELSE rb_speed
    /\ em_red' = IF Kind(p) = "emergency" THEN rgb_to_24bit(255, 0, 0, 0) ELSE em_red
    /\ em_blue' = IF Kind(p) = "emergency" THEN rgb_to_24bit(0, 0, 255, 0) ELSE em_blue
    /\ colour' = IF Kind(p) = "static" THEN [colour EXCEPT ![p] = args[p]] ELSE colour
    /\ t_pc' = [t_pc EXCEPT ![t] = "body"]
    /\ t_loc' = [t_loc EXCEPT ![t] = 0]
    /\ UNCHANGED <<brightness_pct, now, frameVars, frameHist, rendVars, exit_requested,
                   args, supVars, t_prog, t_exc, t_end, msgVars, srvVars, swapHist,
                   ctlVars,
                   chaseVars, mqtt_loop>>

\* loop(): the pixel writes up to the show().
ThBody(t) ==
    /\ t_pc[t] = "body"
    /\ data' = [data EXCEPT !["main"] = LoopBody(t_prog[t], t_loc[t], @)]
    /\ t_pc' = [t_pc EXCEPT ![t] = "show_check"]
    /\ UNCHANGED <<brightness_pct, now, last_write, data2, frame_ready, frameHist,
                   rendVars, progVars, supVars, t_prog, t_loc, t_exc, t_end, msgVars,
                   srvVars, swapHist, ctlVars,
                   chaseVars, mqtt_loop>>

\* LedProgram.show: raise LedExit if cancelled, else go on to Frame.show.
ThShowCheck(t) ==
    /\ t_pc[t] = "show_check"
    /\ IF LedProgram_cancelled(t_prog[t])
       THEN /\ t_pc' = [t_pc EXCEPT ![t] = "except"]
            /\ t_exc' = [t_exc EXCEPT ![t] = "LedExit"]
       ELSE /\ t_pc' = [t_pc EXCEPT ![t] = "stamp"]
            /\ UNCHANGED t_exc
    /\ UNCHANGED <<brightness_pct, now, frameVars, frameHist, rendVars, progVars,
                   supVars, t_prog, t_loc, t_end, msgVars, srvVars, swapHist,
                   ctlVars,
                   chaseVars, mqtt_loop>>

ThStamp(t) ==
    /\ t_pc[t] = "stamp"
    /\ ShowStamp("main")
    /\ t_pc' = [t_pc EXCEPT ![t] = "copy"]
    /\ UNCHANGED <<brightness_pct, now, rendVars, progVars, supVars, t_prog, t_loc,
                   t_exc, t_end, msgVars, srvVars, swapHist,
                   ctlVars,
                   chaseVars, mqtt_loop>>

ThCopy(t) ==
    /\ t_pc[t] = "copy"
    /\ ShowCopy("main")
    /\ t_pc' = [t_pc EXCEPT ![t] = "set"]
    /\ late_commit' = (late_commit \/ t /= nthreads)
    /\ UNCHANGED <<brightness_pct, now, rendVars, progVars, supVars, t_prog, t_loc,
                   t_exc, t_end, msgVars, srvVars, started_log, ctlVars,
                   chaseVars, mqtt_loop>>

\* Where the program goes on after a show(): the sleep() of its loop; the
\* pixel picker's show() is the last statement of its setup() and loop().
AfterShow(p) ==
    CASE Kind(p) = "pixelpicker" -> "pk_iter"
      [] Kind(p) = "chase" -> "ch_sleep"
      [] OTHER -> "sleep"

ThSet(t) ==
    /\ t_pc[t] = "set"
    /\ ShowSet("main")
    /\ t_pc' = [t_pc EXCEPT ![t] = AfterShow(t_prog[t])]
    /\ UNCHANGED <<brightness_pct, now, rendVars, progVars, supVars, t_prog, t_loc,
                   t_exc, t_end, msgVars, srvVars, swapHist,
                   ctlVars,
                   chaseVars, mqtt_loop>>

\* LedProgram.sleep: raise LedExit if cancelled, else sleep; the loop goes on.
ThSleep(t) ==
    /\ t_pc[t] = "sleep"
    /\ IF LedProgram_cancelled(t_prog[t])
       THEN /\ t_pc' = [t_pc EXCEPT ![t] = "except"]
            /\ t_exc' = [t_exc EXCEPT ![t] = "LedExit"]
            /\ UNCHANGED t_loc
       ELSE /\ t_pc' = [t_pc EXCEPT ![t] = "body"]
            /\ t_loc' = [t_loc EXCEPT ![t] = LoopNext(t_prog[t], @)]
            /\ UNCHANGED t_exc
    /\ UNCHANGED <<brightness_pct, now, frameVars, frameHist, rendVars, progVars,
                   supVars, t_prog, t_end, msgVars, srvVars, swapHist,
                   ctlVars,
                   chaseVars, mqtt_loop>>

\* ProgramRunnerThread.run: except LedExit: pass; anything else propagates.
Runner_handle(exc) == IF exc = "LedExit" THEN "normal" ELSE "fault"

\* A runner that runs the program again after a fault.
Runner_after_except_restart(exc) == IF exc = "LedExit" THEN "finally" ELSE "start"

\* ProgramRunnerThread.run: the exception leaves the while loop, caught or
\* not, and the finally clause runs.
Runner_after_except(exc) == "finally"

ThExcept(t) ==
    /\ t_pc[t] = "except"
    /\ t_end' = [t_end EXCEPT ![t] = Runner_handle(t_exc[t])]
    /\ t_pc' = [t_pc EXCEPT ![t] = Runner_after_except(t_exc[t])]
    /\ UNCHANGED <<brightness_pct, now, frameVars, frameHist, rendVars, progVars,
                   supVars, t_prog, t_loc, t_exc, msgVars, srvVars, swapHist,
                   ctlVars,
                   chaseVars, mqtt_loop>>

\* finally: del ...; time.sleep(0.1); the thread ends.
ThFinally(t) ==
    /\ t_pc[t] = "finally"
    /\ t_pc' = [t_pc EXCEPT ![t] = "dead"]
    /\ UNCHANGED <<brightness_pct, now, frameVars, frameHist, rendVars, progVars,
                   supVars, t_prog, t_loc, t_exc, t_end, msgVars, srvVars, swapHist,
                   ctlVars,
                   chaseVars, mqtt_loop>>

\* --------------------------------------------------------- PixelPicker
\* A pixel map as json.loads returns it: the entries of the dict in order,
\* each a key (its text, one character per element) and a channel list;
\* index is the integer the key denotes, for the properties.
Entry(key, index, rgb) == [key |-> key, index |-> index, rgb |-> rgb]
KeyOf(n) == <<DigitChars[n + 1]>>
PickerPosts ==
    { <<Entry(KeyOf(0), 0, <<10, 20, 30>>)>>,
      <<Entry(KeyOf(Pixels - 1), Pixels - 1, <<0, 0, 255>>)>>,
      <<Entry(<<"-", "1">>, 0 - 1, <<255, 0, 0>>)>>,
      <<Entry(KeyOf(Pixels), Pixels, <<255, 0, 0>>)>> }

Keys(d) == [i \in 1..Len(d) |-> d[i].key]
HasKey(d, key) == \E i \in 1..Len(d) : d[i].key = key
Lookup(d, key) == d[CHOOSE i \in 1..Len(d) : d[i].key = key].rgb

\* The pixel picker's thread is past the first statement of its setup() and
\* not asked to stop.
PickerRunning ==
    \E t \in Threads :
        /\ Kind(t_prog[t]) = "pixelpicker"
        /\ t_pc[t] \in {"pk_iter", "pk_key", "pk_sleep", "show_check", "stamp",
                        "copy", "set"}
        /\ ~exit_requested[t_prog[t]]

\* MessageHandler.on_picker_json
OnPickerJson(d) ==
    /\ Len(pk_log) < MaxPosts
    /\ pk_log' = Append(pk_log, [data |-> d, running |-> PickerRunning])
    /\ pk_data' = d
    /\ UNCHANGED <<brightness_pct, now, frameVars, frameHist, rendVars, progVars,
                   supVars, thrVars, msgVars, srvVars, swapHist, ctl_log, pk_iter,
                   enc_in, enc_out,
                   chaseVars, mqtt_loop>>

\* PixelPicker.setup(data=dict(), chosen_pixel=1): self.data = data;
\* self.set_all(self.black); and self.show() follows
PkSetup(t) ==
    /\ t_pc[t] = "setup"
    /\ Kind(t_prog[t]) = "pixelpicker"
    /\ pk_data' = <<>>
    /\ data' = [data EXCEPT !["main"] = Frame_set_all(@, rgb_to_24bit(0, 0, 0, 0))]
    /\ t_pc' = [t_pc EXCEPT ![t] = "show_check"]
    /\ UNCHANGED <<brightness_pct, now, last_write, data2, frame_ready, frameHist,
                   rendVars, progVars, supVars, t_prog, t_loc, t_exc, t_end, msgVars,
                   srvVars, swapHist, ctl_log, pk_iter, pk_log, enc_in, enc_out,
                   chaseVars, mqtt_loop>>

\* PixelPicker.loop: for key in self.data: the iterator over the dict that
\* self.data is now; with no key the loop body is skipped, self.show() next
PkIter(t) ==
    /\ t_pc[t] = "pk_iter"
    /\ pk_iter' = Keys(pk_data)
    /\ t_pc' = [t_pc EXCEPT ![t] = IF pk_data = <<>> THEN "show_check" ELSE "pk_key"]
    /\ UNCHANGED <<brightness_pct, now, frameVars, frameHist, rendVars, progVars,
                   supVars, t_prog, t_loc, t_exc, t_end, msgVars, srvVars, swapHist,
                   ctl_log, pk_data, pk_log, enc_in, enc_out,
                   chaseVars, mqtt_loop>>

\* self.set_pixel(int(key), rgb_to_24bit(self.data[key][0], self.data[key][1],
\* self.data[key][2])): int(key) raises ValueError, self.data[key], read from
\* the dict that self.data is now, raises KeyError
PkKey(t) ==
    LET key == Head(pk_iter)
        pixel == ParseInt(key)
        exc == IF pixel[1] /= "ok" THEN "ValueError"
               ELSE IF ~HasKey(pk_data, key) THEN "KeyError"
               ELSE "none"
    IN
    /\ t_pc[t] = "pk_key"
    /\ IF exc /= "none"
       THEN /\ t_exc' = [t_exc EXCEPT ![t] = exc]
            /\ t_pc' = [t_pc EXCEPT ![t] = "except"]
            /\ UNCHANGED <<data, pk_iter>>
       ELSE /\ data' = [data EXCEPT !["main"] =
                            Frame_set_pixel(@, pixel[2],
                                rgb_to_24bit(Lookup(pk_data, key)[1],
                                             Lookup(pk_data, key)[2],
                                             Lookup(pk_data, key)[3], 0))]
            /\ pk_iter' = Tail(pk_iter)
            /\ t_pc' = [t_pc EXCEPT ![t] = "pk_sleep"]
            /\ UNCHANGED t_exc
    /\ UNCHANGED <<brightness_pct, now, last_write, data2, frame_ready, frameHist,
                   rendVars, progVars, supVars, t_prog, t_loc, t_end, msgVars,
                   srvVars, swapHist, ctl_log, pk_data, pk_log, enc_in, enc_out,
                   chaseVars, mqtt_loop>>

\* self.sleep(0.005), then the next key or, after the last, self.show()
PkSleep(t) ==
    /\ t_pc[t] = "pk_sleep"
    /\ IF LedProgram_cancelled(t_prog[t])
       THEN /\ t_pc' = [t_pc EXCEPT ![t] = "except"]
            /\ t_exc' = [t_exc EXCEPT ![t] = "LedExit"]
       ELSE /\ t_pc' = [t_pc EXCEPT ![t] =
                            IF pk_iter = <<>> THEN "show_check" ELSE "pk_key"]
            /\ UNCHANGED t_exc
    /\ UNCHANGED <<brightness_pct, now, frameVars, frameHist, rendVars, progVars,
                   supVars, t_prog, t_loc, t_end, msgVars, srvVars, swapHist, ctlVars,
                   chaseVars, mqtt_loop>>

PickerStep(t) == PkSetup(t) \/ PkIter(t) \/ PkKey(t) \/ PkSleep(t)

\* --------------------------------------------------------------- Chase
\* a % n as Python computes it: the result has the sign of n.
PyMod(a, n) == IF n > 0 THEN a % n ELSE 0 - ((0 - a) % (0 - n))

\* The inner for loop of Chase.loop for one i, with self.n = n, n /= 0.
ChasePixels(d, i, n) ==
    [p \in PixelIdx |->
        IF PyMod(p, n) = i THEN rgb_to_24bit(255, 255, 255, 0)
        ELSE IF PyMod(p + 1, n) = i THEN rgb_to_24bit(15, 15, 15, 0)
        ELSE rgb_to_24bit(0, 0, 0, 0)]

\* Chase.setup(n=5, t=0.05): self.n = n; self.speed = 1
ChSetup(t) ==
    /\ t_pc[t] = "setup"
    /\ Kind(t_prog[t]) = "chase"
    /\ ch_n' = 5
    /\ ch_speed' = 1
    /\ t_pc' = [t_pc EXCEPT ![t] = "ch_while"]
    /\ UNCHANGED <<brightness_pct, now, frameVars, frameHist, rendVars, progVars,
                   supVars, t_prog, t_loc, t_exc, t_end, msgVars, srvVars, swapHist,
                   ctlVars, ch_stop, mqtt_loop>>

\* while True:
ChWhile(t) ==
    /\ t_pc[t] = "ch_while"
    /\ t_pc' = [t_pc EXCEPT ![t] = "ch_for"]
    /\ UNCHANGED <<brightness_pct, now, frameVars, frameHist, rendVars, progVars,
                   supVars, t_prog, t_loc, t_exc, t_end, msgVars, srvVars, swapHist,
                   ctlVars, chaseVars, mqtt_loop>>

\* for i in range(0, self.n): the range is built from self.n as it is now;
\* an empty one, and the while loop goes round.
ChFor(t) ==
    /\ t_pc[t] = "ch_for"
    /\ ch_stop' = ch_n
    /\ t_loc' = [t_loc EXCEPT ![t] = 0]
    /\ t_pc' = [t_pc EXCEPT ![t] = IF ch_n > 0 THEN "ch_body" ELSE "ch_while"]
    /\ UNCHANGED <<brightness_pct, now, frameVars, frameHist, rendVars, progVars,
                   supVars, t_prog, t_exc, t_end, msgVars, srvVars, swapHist,
                   ctlVars, ch_n, ch_speed, mqtt_loop>>

\* for p in range(0, self.pixel_count): p % self.n raises ZeroDivisionError
\* when self.n is 0; self.show() follows
ChBody(t) ==
    /\ t_pc[t] = "ch_body"
    /\ IF ch_n = 0
       THEN /\ t_exc' = [t_exc EXCEPT ![t] = "ZeroDivisionError"]
            /\ t_pc' = [t_pc EXCEPT ![t] = "except"]
            /\ UNCHANGED data
       ELSE /\ data' = [data EXCEPT !["main"] = ChasePixels(@, t_loc[t], ch_n)]
            /\ t_pc' = [t_pc EXCEPT ![t] = "show_check"]
            /\ UNCHANGED t_exc
    /\ UNCHANGED <<brightness_pct, now, last_write, data2, frame_ready, frameHist,
                   rendVars, progVars, supVars, t_prog, t_loc, t_end, msgVars,
                   srvVars, swapHist, ctlVars, chaseVars, mqtt_loop>>

\* time.sleep(self.t / self.speed), no cancellation check: the division
\* raises ZeroDivisionError, time.sleep of a negative number ValueError; then
\* the next i or, the range exhausted, the while loop again
ChSleep(t) ==
    /\ t_pc[t] = "ch_sleep"
    /\ IF ch_speed <= 0
       THEN /\ t_exc' = [t_exc EXCEPT ![t] =
                            IF ch_speed = 0 THEN "ZeroDivisionError" ELSE "ValueError"]
            /\ t_pc' = [t_pc EXCEPT ![t] = "except"]
            /\ UNCHANGED t_loc
       ELSE /\ t_loc' = [t_loc EXCEPT ![t] = @ + 1]
            /\ t_pc' = [t_pc EXCEPT ![t] =
                            IF t_loc[t] + 1 < ch_stop THEN "ch_body" ELSE "ch_while"]
            /\ UNCHANGED t_exc
    /\ UNCHANGED <<brightness_pct, now, frameVars, frameHist, rendVars, progVars,
                   supVars, t_prog, t_end, msgVars, srvVars, swapHist, ctlVars,
                   chaseVars, mqtt_loop>>

ChaseStep(t) == ChSetup(t) \/ ChWhile(t) \/ ChFor(t) \/ ChBody(t) \/ ChSleep(t)

ThreadStep(t) ==
    \/ ThRun(t) \/ ThSetup(t) \/ ThBody(t) \/ ThShowCheck(t) \/ ThStamp(t)
    \/ ThCopy(t) \/ ThSet(t) \/ ThSleep(t) \/ ThExcept(t) \/ ThFinally(t)

\* ------------------------------------------------------- MainLedThread
\* if self.new_program is not None: ... if self.progthread is not None:
SupCheck ==
    /\ sup_pc = "idle"
    /\ new_program /= None
    /\ nthreads < MaxThreads
    /\ sup_pc' = IF progthread /= 0 THEN "stop" ELSE "create"
    /\ UNCHANGED <<brightness_pct, now, frameVars, frameHist, rendVars, progVars,
                   new_program, progthread, nthreads, thrVars, msgVars, srvVars,
                   swapHist, ctlVars,
                   chaseVars, mqtt_loop>>

\* ProgramRunnerThread.stop: self.program.stop() ...
SupStop ==
    /\ sup_pc = "stop"
    /\ exit_requested' = [exit_requested EXCEPT ![t_prog[progthread]] = TRUE]
    /\ sup_pc' = "join"
    /\ UNCHANGED <<brightness_pct, now, frameVars, frameHist, rendVars, args, colour,
                   rb_multiplier, rb_speed, em_red, em_blue, new_program, progthread,
                   nthreads, thrVars, msgVars, srvVars, swapHist,
                   ctlVars,
                   chaseVars, mqtt_loop>>

\* A stop() that does not wait for the thread.
Runner_joined_nowait(t) == TRUE

\* ... self.join(): returns once the runner thread has ended.
Runner_joined(t) == t_pc[t] = "dead"

SupJoin ==
    /\ sup_pc = "join"
    /\ Runner_joined(progthread)
    /\ sup_pc' = "create"
    /\ UNCHANGED <<brightness_pct, now, frameVars, frameHist, rendVars, progVars,
                   new_program, progthread, nthreads, thrVars, msgVars, srvVars,
                   swapHist, ctlVars,
                   chaseVars, mqtt_loop>>

\* self.progthread = ProgramRunnerThread(); .program = self.new_program;
\* .daemon = True; .start()
SupStart ==
    /\ sup_pc = "create"
    /\ nthreads' = nthreads + 1
    /\ progthread' = nthreads + 1
    /\ t_prog' = [t_prog EXCEPT ![nthreads + 1] = new_program]
    /\ t_pc' = [t_pc EXCEPT ![nthreads + 1] = "start"]
    /\ started_log' = Append(started_log, new_seq)
    /\ sup_pc' = "clear"
    /\ UNCHANGED <<brightness_pct, now, frameVars, frameHist, rendVars, progVars,
                   new_program, t_loc, t_exc, t_end, msgVars, srvVars, late_commit,
                   ctlVars,
                   chaseVars, mqtt_loop>>

\* A supervisor that leaves the slot as it is.
Sup_cleared_kept(np) == np

\* self.new_program = None; time.sleep(0.5)
Sup_cleared(np) == None

SupClear ==
    /\ sup_pc = "clear"
    /\ new_program' = Sup_cleared(new_program)
    /\ sup_pc' = "idle"
    /\ UNCHANGED <<brightness_pct, now, frameVars, frameHist, rendVars, progVars,
                   progthread, nthreads, thrVars, msgVars, srvVars, swapHist,
                   ctlVars,
                   chaseVars, mqtt_loop>>

SupStep == SupCheck \/ SupStop \/ SupJoin \/ SupStart \/ SupClear

\* ------------------------------------------------------ MessageHandler
\* Payloads of the root topic, as decoded.
Payloads == {"rainbow", "emergency", "red", "blue", "nosuch"}

\* MessageHandler.on_root
OnRoot(payload) ==
    /\ msgs < MaxMsgs
    /\ msgs' = msgs + 1
    /\ IF payload \in PresetNames
       THEN /\ new_program' = presets[payload]
            /\ submitted' = Append(submitted, presets[payload])
            /\ new_seq' = Len(submitted) + 1
            /\ UNCHANGED <<args, exit_requested>>
       ELSE LET rgb == parse_colour(payload)
                p == <<"static", msgs + 1>>
            IN IF rgb = None
               THEN UNCHANGED <<new_program, submitted, new_seq, args,
                                exit_requested>>
               ELSE /\ args' = [args EXCEPT ![p] =
                                    rgb_to_24bit(rgb[1], rgb[2], rgb[3], 0)]
                    /\ exit_requested' = [exit_requested EXCEPT ![p] = FALSE]
                    /\ new_program' = p
                    /\ submitted' = Append(submitted, p)
                    /\ new_seq' = Len(submitted) + 1
    /\ UNCHANGED <<brightness_pct, now, frameVars, frameHist, rendVars, colour,
                   rb_multiplier, rb_speed, em_red, em_blue, progthread, sup_pc,
                   nthreads, thrVars, srvVars, swapHist, ctlVars,
                   chaseVars, mqtt_loop>>

\* Payloads of the root topic as sent: the text in tokens, a word being one
\* token.
Quote == "\""
RootTexts ==
    { <<"rainbow">>, <<Quote, "emergency", Quote>>, <<"red">>, <<"nosuch">>,
      <<"5">>, <<"[", "1", "]">> }

\* json.loads of the texts above: a quoted word is a string, a bracketed text
\* a list, digits an integer, anything else raises ValueError.
json_loads(text) ==
    IF Len(text) = 3 /\ text[1] = Quote /\ text[3] = Quote
    THEN <<"str", text[2]>>
    ELSE IF Len(text) >= 2 /\ text[1] = "[" /\ text[Len(text)] = "]"
    THEN <<"list", 0>>
    ELSE IF ParseInt(text)[1] = "ok"
    THEN <<"int", ParseInt(text)[2]>>
    ELSE <<"ValueError", 0>>

\* message.payload.decode(): the word, or a text with a quote or a bracket in
\* it, which is no key of presets and no colour.
Decode(text) == IF Len(text) = 1 THEN text[1] ELSE "other"

\* on_root: data = json.loads(...), except ValueError: data = the raw string
RootData(text) ==
    IF json_loads(text)[1] = "ValueError"
    THEN <<"str", Decode(text)>>
    ELSE json_loads(text)

\* MessageHandler.on_message for the root topic: on_root under the try of
\* on_message. `data in presets` raises TypeError for a list, which is
\* unhashable; the handler of on_message for it reads e.message, which no
\* exception has, so an AttributeError leaves on_message and
\* m.loop_forever(): no message is handled after it.
OnMessageRoot(text) ==
    LET d == RootData(text)
        p == <<"static", msgs + 1>>
        rgb == IF d[1] = "str" THEN parse_colour(d[2]) ELSE None
    IN
    /\ mqtt_loop = "running"
    /\ msgs < MaxMsgs
    /\ msgs' = msgs + 1
    /\ ctl_log' = Append(ctl_log, [topic |-> "root", payload |-> text])
    /\ IF d[1] = "list"
       THEN /\ mqtt_loop' = "raised"
            /\ UNCHANGED <<new_program, submitted, new_seq, args, exit_requested>>
       ELSE IF d[1] = "str" /\ d[2] \in PresetNames
       THEN /\ new_program' = presets[d[2]]
            /\ submitted' = Append(submitted, presets[d[2]])
            /\ new_seq' = Len(submitted) + 1
            /\ UNCHANGED <<args, exit_requested, mqtt_loop>>
       ELSE IF rgb = None
       THEN UNCHANGED <<new_program, submitted, new_seq, args, exit_requested,
                        mqtt_loop>>
       ELSE /\ args' = [args EXCEPT ![p] = rgb_to_24bit(rgb[1], rgb[2], rgb[3], 0)]
            /\ exit_requested' = [exit_requested EXCEPT ![p] = FALSE]
            /\ new_program' = p
            /\ submitted' = Append(submitted, p)
            /\ new_seq' = Len(submitted) + 1
            /\ UNCHANGED mqtt_loop
    /\ UNCHANGED <<brightness_pct, now, frameVars, frameHist, rendVars, colour,
                   rb_multiplier, rb_speed, em_red, em_blue, progthread, sup_pc,
                   nthreads, thrVars, srvVars, swapHist, pk_data, pk_iter, pk_log,
                   enc_in, enc_out, chaseVars>>

\* A handler that takes any integer.
Brightness_accepts_any(payload) == TRUE

\* MessageHandler.on_brightness: if payload >= 0 and payload <= 100
Brightness_accepts(payload) == payload >= 0 /\ payload <= 100

\* MessageHandler.on_brightness under on_message, which logs a ValueError.
OnBrightness(m) ==
    LET payload == ParseInt(m.text) IN
    /\ Len(ctl_log) < MaxCtl
    /\ ctl_log' = Append(ctl_log, [topic |-> "brightness", payload |-> m])
    /\ brightness_pct' = IF payload[1] = "ok" /\ Brightness_accepts(payload[2])
                         THEN payload[2]
                         ELSE brightness_pct
    /\ UNCHANGED <<now, frameVars, frameHist, rendVars, progVars, supVars, thrVars,
                   msgVars, srvVars, swapHist, pk_data, pk_iter, pk_log, enc_in,
                   enc_out,
                   chaseVars, mqtt_loop>>

\* MessageHandler.on_rainbow_multiplier
OnRainbowMultiplier(m) ==
    LET payload == ParseFloat(m.text) IN
    /\ Len(ctl_log) < MaxCtl
    /\ ctl_log' = Append(ctl_log, [topic |-> "rainbow/multiplier", payload |-> m])
    /\ rb_multiplier' = IF payload[1] = "ok" THEN payload[2] ELSE rb_multiplier
    /\ UNCHANGED <<brightness_pct, now, frameVars, frameHist, rendVars,
                   exit_requested, args, colour, rb_speed, em_red, em_blue, supVars,
                   thrVars, msgVars, srvVars, swapHist, pk_data, pk_iter, pk_log,
                   enc_in, enc_out,
                   chaseVars, mqtt_loop>>

\* MessageHandler.on_rainbow_speed
OnRainbowSpeed(m) ==
    LET payload == ParseFloat(m.text) IN
    /\ Len(ctl_log) < MaxCtl
    /\ ctl_log' = Append(ctl_log, [topic |-> "rainbow/speed", payload |-> m])
    /\ rb_speed' = IF payload[1] = "ok" THEN payload[2] ELSE rb_speed
    /\ UNCHANGED <<brightness_pct, now, frameVars, frameHist, rendVars,
                   exit_requested, args, colour, rb_multiplier, em_red, em_blue,
                   supVars, thrVars, msgVars, srvVars, swapHist, pk_data, pk_iter,
                   pk_log, enc_in, enc_out,
                   chaseVars, mqtt_loop>>

\* Payloads of the chase topics.
ChasePayloads ==
    { Numeral(<<"2">>, TRUE, 2), Numeral(<<"0">>, TRUE, 0),
      Numeral(<<"-", "1">>, TRUE, -1), Numeral(<<"x">>, FALSE, 0) }

\* MessageHandler.on_chase_pixels: presets["chase"].n = int(message.payload)
OnChasePixels(m) ==
    LET payload == ParseInt(m.text) IN
    /\ Len(ctl_log) < MaxCtl
    /\ ctl_log' = Append(ctl_log, [topic |-> "chase/pixels", payload |-> m])
    /\ ch_n' = IF payload[1] = "ok" THEN payload[2] ELSE ch_n
    /\ UNCHANGED <<brightness_pct, now, frameVars, frameHist, rendVars, progVars,
                   supVars, thrVars, msgVars, srvVars, swapHist, pk_data, pk_iter,
                   pk_log, enc_in, enc_out, ch_speed, ch_stop, mqtt_loop>>

\* MessageHandler.on_chase_speed: presets["chase"].speed = float(message.payload)
OnChaseSpeed(m) ==
    LET payload == ParseFloat(m.text) IN
    /\ Len(ctl_log) < MaxCtl
    /\ ctl_log' = Append(ctl_log, [topic |-> "chase/speed", payload |-> m])
    /\ ch_speed' = IF payload[1] = "ok" THEN payload[2] ELSE ch_speed
    /\ UNCHANGED <<brightness_pct, now, frameVars, frameHist, rendVars, progVars,
                   supVars, thrVars, msgVars, srvVars, swapHist, pk_data, pk_iter,
                   pk_log, enc_in, enc_out, ch_n, ch_stop, mqtt_loop>>

\* ------------------------------------------------------------ Renderer
\* A frame's liveness as the data model defines it, from the history of
\* commits: no timeout, or the latest commit less than the timeout ago.
IsLive(f) == ~HasTimeout(f) \/ now - commit_time[f] < Timeout(f)

\* A scan without the break: it goes on to the next frame.
Renderer_after_render_nobreak(idx) == IF idx < Len(RenderList) THEN idx + 1 ELSE 1

\* for frame in self.frames: ... break. The index at which the renderer goes
\* on after render_strip has returned: the break ends the scan.
Renderer_after_render(idx) == 1

RenderDone ==
    LET nxt == Renderer_after_render(r_idx) IN
    /\ r_pc' = "scan"
    /\ r_idx' = nxt
    /\ seen' = IF nxt = 1 THEN <<>> ELSE seen

\* if frame.active(): frame.render_strip(self.strip)
RScan ==
    LET f == RenderList[r_idx] IN
    /\ r_pc = "scan"
    /\ IF Frame_active(f)
       THEN /\ r_pc' = "is_set"
            /\ seen' = Append(seen, IsLive(f))
            /\ UNCHANGED r_idx
       ELSE /\ r_pc' = "scan"
            /\ r_idx' = IF r_idx < Len(RenderList) THEN r_idx + 1 ELSE 1
            /\ seen' = IF r_idx < Len(RenderList) THEN Append(seen, IsLive(f)) ELSE <<>>
    /\ UNCHANGED <<brightness_pct, now, frameVars, frameHist, r_i, strip_buf, shown,
                   flushed, flush_count, progVars, supVars, thrVars, msgVars, srvVars,
                   swapHist, ctlVars,
                   chaseVars, mqtt_loop>>

\* A render_strip that pushes the frame whether or not it has new data.
Frame_render_pending_always(f) == TRUE

\* Frame.render_strip: self.frame_ready.is_set()
Frame_render_pending(f) == frame_ready[f]

\* Frame.render_strip: if self.frame_ready.is_set():
RIsSet ==
    LET f == RenderList[r_idx] IN
    /\ r_pc = "is_set"
    /\ IF Frame_render_pending(f)
       THEN r_pc' = "clear" /\ UNCHANGED <<r_idx, seen>>
       ELSE RenderDone
    /\ UNCHANGED <<brightness_pct, now, frameVars, frameHist, r_i, strip_buf, shown,
                   flushed, flush_count, progVars, supVars, thrVars, msgVars, srvVars,
                   swapHist, ctlVars,
                   chaseVars, mqtt_loop>>

\* self.frame_ready.clear()
RClear ==
    LET f == RenderList[r_idx] IN
    /\ r_pc = "clear"
    /\ frame_ready' = [frame_ready EXCEPT ![f] = FALSE]
    /\ r_pc' = "copy"
    /\ r_i' = 0
    /\ UNCHANGED <<brightness_pct, now, last_write, data, data2, frameHist, r_idx,
                   strip_buf, shown, seen, flushed, flush_count, progVars, supVars, thrVars,
                   msgVars, srvVars, swapHist,
                   ctlVars,
                   chaseVars, mqtt_loop>>

\* The generation render_strip reads pixel i from: self.data2, looked up again
\* for every pixel.
Render_source(f) == data2[f]

\* strip.setPixelColor(i, self.data2[i]), one pixel per step
RCopy ==
    LET f == RenderList[r_idx] IN
    /\ r_pc = "copy"
    /\ strip_buf' = [strip_buf EXCEPT ![r_i] = Render_source(f)[r_i]]
    /\ r_i' = r_i + 1
    /\ r_pc' = IF r_i + 1 = Pixels THEN "flush" ELSE "copy"
    /\ UNCHANGED <<brightness_pct, now, frameVars, frameHist, r_idx, shown, seen,
                   flushed, flush_count, progVars, supVars, thrVars, msgVars, srvVars,
                   swapHist, ctlVars,
                   chaseVars, mqtt_loop>>

\* strip.show(), and render_strip returns
RFlush ==
    /\ r_pc = "flush"
    /\ shown' = strip_buf
    /\ flushed' = RenderList[r_idx]
    /\ flush_count' = IF RenderList[r_idx] \in Servers
                      THEN [flush_count EXCEPT ![RenderList[r_idx]] = @ + 1]
                      ELSE flush_count
    /\ RenderDone
    /\ UNCHANGED <<brightness_pct, now, frameVars, frameHist, r_i, strip_buf,
                   progVars, supVars, thrVars, msgVars, srvVars, swapHist,
                   ctlVars,
                   chaseVars, mqtt_loop>>

RendStep == RScan \/ RIsSet \/ RClear \/ RCopy \/ RFlush

\* --------------------------------------------------------------- clock
Tick ==
    /\ now < StartTime + Horizon
    /\ now' = now + 1
    /\ UNCHANGED <<brightness_pct, frameVars, frameHist, rendVars, progVars, supVars,
                   thrVars, msgVars, srvVars, swapHist,
                   ctlVars,
                   chaseVars, mqtt_loop>>

\* ------------------------------------------------------- ServerProgram
\* while pos + 2 < len(data): r, g, b = data[pos:pos+3];
\*     self.set_pixel(pixel, rgb_to_24bit(r, g, b)); pixel += 1; pos += 3
\* (d[k+1] is the program's data[k])
RECURSIVE WriteTriplets(_, _, _, _)
WriteTriplets(d, pos, pixel, buf) ==
    IF pos + 2 < Len(d)
    THEN WriteTriplets(d, pos + 3, pixel + 1,
             Frame_set_pixel(buf, pixel,
                 rgb_to_24bit(d[pos + 1], d[pos + 2], d[pos + 3], 0)))
    ELSE buf

\* A dispatch whose opcode 0x05 shows like 0x04.
Server_handle_5shows(d, buf) ==
    IF Len(d) >= 3 /\ d[1] \in {4, 5}
    THEN [data |-> WriteTriplets(d, 3, d[2] * 256 + d[3], buf), next |-> "show"]
    ELSE [data |-> buf, next |-> "recv"]

\* A dispatch whose opcode 0x04 writes from pixel 0, whatever the start index.
Server_handle_nostart(d, buf) ==
    IF Len(d) >= 3 /\ d[1] = 4
    THEN [data |-> WriteTriplets(d, 3, 0, buf), next |-> "show"]
    ELSE IF Len(d) >= 1 /\ d[1] = 3
         THEN [data |-> WriteTriplets(d, 1, 0, buf), next |-> "show"]
         ELSE [data |-> buf, next |-> "recv"]

\* ServerProgram.loop, the dispatch on data[0]: the write generation after the
\* datagram and what follows: "show" (self.show()), "recv" (the next
\* recvfrom) or "raise" (an exception leaves loop()).
\* Opcode 0x01: r, g, b = data[1:4] raises ValueError unless three bytes
\* follow, and self.set_all(r, g, b) raises TypeError, LedProgram.set_all
\* taking one colour. Opcodes 0x04 and 0x05: data[1], data[2] raise IndexError
\* on a datagram shorter than 3 bytes.
Server_handle(d, buf) ==
    IF Len(d) = 0 THEN [data |-> buf, next |-> "recv"]
    ELSE CASE d[1] = 1 -> [data |-> buf, next |-> "raise"]
           [] d[1] = 3 -> [data |-> WriteTriplets(d, 1, 0, buf), next |-> "show"]
           [] d[1] = 4 ->
                IF Len(d) < 3 THEN [data |-> buf, next |-> "raise"]
                ELSE [data |-> WriteTriplets(d, 3, d[2] * 256 + d[3], buf),
                      next |-> "show"]
           [] d[1] = 5 ->
                IF Len(d) < 3 THEN [data |-> buf, next |-> "raise"]
                ELSE [data |-> WriteTriplets(d, 3, d[2] * 256 + d[3], buf),
                      next |-> "recv"]
           [] OTHER -> [data |-> buf, next |-> "recv"]

\* Datagrams received so far, by both server programs.
Received == Len(rx_log["net"]) + Len(rx_log["music"])

\* sock = socket.socket(...); sock.bind(...)
SrvBind(f) ==
    /\ s_pc[f] = "bind"
    /\ s_pc' = [s_pc EXCEPT ![f] = "recv"]
    /\ UNCHANGED <<brightness_pct, now, frameVars, frameHist, rendVars, progVars,
                   supVars, thrVars, msgVars, rx_log, swapHist, ctlVars,
                   chaseVars, mqtt_loop>>

\* data, address = sock.recvfrom(1500) and the dispatch. No code calls stop()
\* on the runner of a ServerProgram, so its exit_requested stays False and
\* self.show() goes on to Frame.show.
SrvRecv(f, d) ==
    LET h == Server_handle(d, data[f]) IN
    /\ s_pc[f] = "recv"
    /\ Received < MaxDatagrams
    /\ rx_log' = [rx_log EXCEPT ![f] = Append(@, d)]
    /\ data' = [data EXCEPT ![f] = h.data]
    /\ s_pc' = [s_pc EXCEPT ![f] = CASE h.next = "show" -> "stamp"
                                     [] h.next = "raise" -> "backoff"
                                     [] OTHER -> "recv"]
    /\ UNCHANGED <<brightness_pct, now, last_write, data2, frame_ready, frameHist,
                   rendVars, progVars, supVars, thrVars, msgVars, swapHist, ctlVars,
                   chaseVars, mqtt_loop>>

SrvStamp(f) ==
    /\ s_pc[f] = "stamp"
    /\ ShowStamp(f)
    /\ s_pc' = [s_pc EXCEPT ![f] = "copy"]
    /\ UNCHANGED <<brightness_pct, now, rendVars, progVars, supVars, thrVars, msgVars,
                   rx_log, swapHist, ctlVars,
                   chaseVars, mqtt_loop>>

SrvCopy(f) ==
    /\ s_pc[f] = "copy"
    /\ ShowCopy(f)
    /\ s_pc' = [s_pc EXCEPT ![f] = "set"]
    /\ UNCHANGED <<brightness_pct, now, rendVars, progVars, supVars, thrVars, msgVars,
                   rx_log, swapHist, ctlVars,
                   chaseVars, mqtt_loop>>

SrvSet(f) ==
    /\ s_pc[f] = "set"
    /\ ShowSet(f)
    /\ s_pc' = [s_pc EXCEPT ![f] = "recv"]
    /\ UNCHANGED <<brightness_pct, now, rendVars, progVars, supVars, thrVars, msgVars,
                   rx_log, swapHist, ctlVars,
                   chaseVars, mqtt_loop>>

\* A run() that ends the thread after a fault.
Server_after_fault_ends(f) == "dead"

\* ServerProgram.run, after the exception is logged: if self.exit_requested:
\* return; time.sleep(1), and the while loop calls loop() again. The flag of a
\* server program is False from LedProgram.__init__ on, no code calling its
\* stop(); and were run() to return, ProgramRunnerThread.run would call it
\* again.
Server_after_fault(f) == "bind"

\* ServerProgram.run: except Exception: logging.exception(...);
\* if self.exit_requested: return; time.sleep(1); and loop() is entered again
SrvBackoff(f) ==
    /\ s_pc[f] = "backoff"
    /\ s_pc' = [s_pc EXCEPT ![f] = Server_after_fault(f)]
    /\ UNCHANGED <<brightness_pct, now, frameVars, frameHist, rendVars, progVars,
                   supVars, thrVars, msgVars, rx_log, swapHist, ctlVars,
                   chaseVars, mqtt_loop>>

\* The datagrams the model sends: one or two colour triplets, start indexes up
\* to one past the last pixel, short and unknown ones.
Red == <<255, 0, 0>>
Blue == <<0, 0, 255>>
Datagrams ==
    {<<>>, <<2>>, <<1>> \o Red, <<1, 255>>}
    \cup {<<3>>, <<3>> \o Red, <<3>> \o Red \o Blue, <<3>> \o Blue \o <<9>>}
    \cup {<<op, 0, s>> \o c : op \in {4, 5}, s \in {0, Pixels - 1, Pixels},
                             c \in {Red, Blue}}
    \cup {<<op, 0, 0>> \o Red \o Blue : op \in {4, 5}}
    \cup {<<4>>, <<5, 0>>, <<4, 1, 0>> \o Red}
\* A datagram that commits and writes nothing.
CommitOnly == {<<3>>}

\* -------------------------------------------------------------- Init
\* The state main() leaves before any thread has run, but for the brightness
\* and the parts InitMain and MainShown state.
InitRest ==
    /\ now = StartTime
    /\ r_pc = "scan"
    /\ r_idx = 1
    /\ r_i = 0
    /\ strip_buf = Blank
    /\ shown = Blank
    /\ exit_requested = [p \in ProgramIds |-> FALSE]
    /\ args = [p \in ProgramIds |-> 0]
    /\ colour = [p \in ProgramIds |-> 0]
    /\ em_red = 0
    /\ em_blue = 0
    /\ t_loc = [t \in Threads |-> 0]
    /\ t_exc = [t \in Threads |-> "none"]
    /\ t_end = [t \in Threads |-> "none"]
    /\ s_pc = [f \in Servers |-> "bind"]
    /\ rx_log = [f \in Servers |-> <<>>]
    /\ commit_count = [f \in Servers |-> 0]
    /\ seen = <<>>
    /\ flushed = "none"
    /\ late_commit = FALSE
    /\ flush_count = [f \in Servers |-> 0]
    /\ ctl_log = <<>>
    /\ pk_data = <<>>
    /\ pk_iter = <<>>
    /\ pk_log = <<>>
    /\ enc_in = None
    /\ enc_out = 0
    /\ ch_n = 0
    /\ ch_speed = 0
    /\ ch_stop = 0
    /\ mqtt_loop = "running"

\* brightness_pct = 100 at module level.
\* main() submits the rainbow; no root message yet.
InitSubmit ==
    /\ msgs = 0
    /\ submitted = <<presets["rainbow"]>>
    /\ new_seq = 1

InitCommon == brightness_pct = 100 /\ InitSubmit /\ InitRest

\* No runner yet, the frames as Frame.__init__ leaves them.
InitNoRunner ==
    /\ last_write = [f \in Frames |-> 0]
    /\ data = [f \in Frames |-> Blank]
    /\ data2 = [f \in Frames |-> Blank]
    /\ frame_ready = [f \in Frames |-> FALSE]
    /\ commits = [f \in Frames |-> {Blank}]
    /\ commit_time = [f \in Frames |-> 0]
    /\ rb_multiplier = 0
    /\ rb_speed = 0
    /\ progthread = 0
    /\ sup_pc = "idle"
    /\ nthreads = 0
    /\ t_pc = [t \in Threads |-> "unborn"]
    /\ t_prog = [t \in Threads |-> None]
    /\ started_log = <<>>

\* mainledthread.new_program = presets["rainbow"]
InitMain == InitNoRunner /\ new_program = presets["rainbow"]

Init == InitCommon /\ InitMain

\* The state after a root message "pixelpicker" that the handler received
\* before the supervisor's first look at new_program.
InitPicker ==
    /\ brightness_pct = 100
    /\ InitRest
    /\ InitNoRunner
    /\ msgs = 1
    /\ submitted = <<presets["rainbow"], presets["pixelpicker"]>>
    /\ new_seq = 2
    /\ new_program = presets["pixelpicker"]

\* The state after a root message "chase" that the handler received before
\* the supervisor's first look at new_program.
InitChase ==
    /\ brightness_pct = 100
    /\ InitRest
    /\ InitNoRunner
    /\ msgs = 1
    /\ submitted = <<presets["rainbow"], presets["chase"]>>
    /\ new_seq = 2
    /\ new_program = presets["chase"]

\* The state once the supervisor has started the rainbow program and that
\* program has completed its first show(), at the start time, and sleeps.
MainShown ==
    /\ rb_multiplier = 2
    /\ rb_speed = 1
    /\ LET g == [i \in PixelIdx |-> RainbowPixel(0, i)] IN
         /\ data = [f \in Frames |-> IF f = "main" THEN g ELSE Blank]
         /\ data2 = [f \in Frames |-> IF f = "main" THEN g ELSE Blank]
         /\ commits = [f \in Frames |-> IF f = "main" THEN {Blank, g} ELSE {Blank}]
    /\ last_write = [f \in Frames |-> IF f = "main" THEN StartTime ELSE 0]
    /\ commit_time = [f \in Frames |-> IF f = "main" THEN StartTime ELSE 0]
    /\ frame_ready = [f \in Frames |-> f = "main"]
    /\ new_program = None
    /\ progthread = 1
    /\ sup_pc = "idle"
    /\ nthreads = 1
    /\ t_pc = [t \in Threads |-> IF t = 1 THEN "sleep" ELSE "unborn"]
    /\ t_prog = [t \in Threads |-> IF t = 1 THEN presets["rainbow"] ELSE None]
    /\ started_log = <<1>>

\* ------------------------------------------------------ specifications
\* The hot swap: root messages, the supervisor and its runner threads.
Next ==
    \/ SupStep
    \/ \E t \in Threads : ThreadStep(t)
    \/ \E payload \in Payloads : OnRoot(payload)

Spec == Init /\ [][Next]_vars

\* The threads are scheduled fairly; messages may stop arriving.
FairSpec ==
    /\ Spec
    /\ WF_vars(SupStep)
    /\ \A t \in Threads : WF_vars(ThreadStep(t))

\* Without root messages the supervisor starts the program main() submits
\* and that program runs on: no stop, no join, no exception.
MainStartup == SupCheck \/ SupStart \/ SupClear
ProgramLoop(t) ==
    \/ ThRun(t) \/ ThSetup(t) \/ ThBody(t) \/ ThShowCheck(t) \/ ThStamp(t)
    \/ ThCopy(t) \/ ThSet(t) \/ ThSleep(t)

\* The renderer and the program of the main frame.
NextFrame ==
    \/ RendStep
    \/ MainStartup
    \/ \E t \in Threads : ProgramLoop(t)
    \/ Tick

SpecFrame == Init /\ [][NextFrame]_vars

\* The renderer thread is scheduled; the program may stop committing.
FairSpecFrame == SpecFrame /\ WF_vars(RendStep)

\* The renderer, the clock and the UDP server programs, which receive
\* datagrams that commit. The program of the main frame takes no step: it
\* has not been started, or has shown its first frame and is not scheduled
\* again, so that the main frame is live at first and then times out.
ServerCommit(f) ==
    \/ SrvBind(f)
    \/ \E d \in CommitOnly : SrvRecv(f, d)
    \/ SrvStamp(f) \/ SrvCopy(f) \/ SrvSet(f)

NextRender ==
    \/ RendStep
    \/ Tick
    \/ \E f \in Servers : ServerCommit(f)

InitRender == InitCommon /\ (InitMain \/ MainShown)

SpecRender == InitRender /\ [][NextRender]_vars

\* The UDP server program of the net frame.
NextUDP ==
    \/ SrvBind("net")
    \/ \E d \in Datagrams : SrvRecv("net", d)
    \/ SrvStamp("net") \/ SrvCopy("net") \/ SrvSet("net")
    \/ SrvBackoff("net")

SpecUDP == Init /\ [][NextUDP]_vars

\* The server program's thread is scheduled; datagrams may stop arriving.
FairSpecUDP ==
    /\ SpecUDP
    /\ WF_vars(SrvBind("net"))
    /\ WF_vars(SrvStamp("net") \/ SrvCopy("net") \/ SrvSet("net"))
    /\ WF_vars(SrvBackoff("net"))

\* The codec under every brightness the handler accepts.
InitCodec == brightness_pct \in 0..100 /\ InitSubmit /\ InitRest /\ InitMain

NextCodec ==
    \E red \in ChannelSamples, green \in ChannelSamples, blue \in ChannelSamples,
       white \in WhiteSamples : Encode(red, green, blue, white)

SpecCodec == InitCodec /\ [][NextCodec]_vars

\* The pixel picker, started by the supervisor, its picker/json messages, and
\* a root message that swaps it for a static colour.
PickerPayloads == {"red"}

NextPicker ==
    \/ SupStep
    \/ \E t \in Threads : ThreadStep(t)
    \/ \E t \in Threads : PickerStep(t)
    \/ \E d \in PickerPosts : OnPickerJson(d)
    \/ \E payload \in PickerPayloads : OnRoot(payload)

SpecPicker == InitPicker /\ [][NextPicker]_vars

\* The threads are scheduled fairly; messages may stop arriving.
FairSpecPicker ==
    /\ SpecPicker
    /\ WF_vars(SupStep)
    /\ \A t \in Threads : WF_vars(ThreadStep(t) \/ PickerStep(t))

\* The root topic with payloads as sent, the supervisor and the runners.
NextRoot ==
    \/ SupStep
    \/ \E t \in Threads : ThreadStep(t)
    \/ \E text \in RootTexts : OnMessageRoot(text)

SpecRoot == Init /\ [][NextRoot]_vars

\* The chase topics, the chase program and a swap to a static colour.
NextChase ==
    \/ SupStep
    \/ \E t \in Threads : ThreadStep(t)
    \/ \E t \in Threads : ChaseStep(t)
    \/ \E m \in ChasePayloads : OnChasePixels(m)
    \/ \E m \in ChasePayloads : OnChaseSpeed(m)
    \/ \E payload \in PickerPayloads : OnRoot(payload)

SpecChase == InitChase /\ [][NextChase]_vars

\* The threads are scheduled fairly; messages may stop arriving.
FairSpecChase ==
    /\ SpecChase
    /\ WF_vars(SupStep)
    /\ \A t \in Threads : WF_vars(ThreadStep(t) \/ ChaseStep(t))

\* The parameter topics and the program main() submits, the rainbow.
NextCtl ==
    \/ MainStartup
    \/ \E t \in Threads : ProgramLoop(t)
    \/ \E m \in BrightnessPayloads : OnBrightness(m)
    \/ \E m \in FloatPayloads : OnRainbowMultiplier(m)
    \/ \E m \in FloatPayloads : OnRainbowSpeed(m)

SpecCtl == Init /\ [][NextCtl]_vars

\* ---------------------------------------------------------- properties

\* C1: the pixel array of one render (the setPixelColor calls before one
\* strip.show()) is one committed generation of the frame rendered, never a
\* mix of two commits.
C1_RenderIsOneGeneration ==
    flushed /= "none" => shown \in commits[flushed]

\* C2: at most one runner thread of the supervisor is alive, it is the one
\* started last, and no runner commits to the main frame after a later
\* runner has been started.
C2_HotSwapRaceFree ==
    /\ Cardinality({t \in Threads : Alive(t)}) <= 1
    /\ \A t \in Threads : Alive(t) => t = nthreads
    /\ ~late_commit

\* A second runner commits after the first one, stopped, has committed.
C2_Witness ==
    /\ nthreads = 2
    /\ t_end[1] = "normal"
    /\ t_pc[1] = "dead"
    /\ t_pc[2] = "set"
    /\ Cardinality(commits["main"]) >= 3

\* C3: stop() terminates: the supervisor, once it waits in join(), comes to
\* leave it, the runner having observed the cancellation and ended.
C3_StopTerminates == (sup_pc = "join") ~> (sup_pc /= "join")

\* C4: no submit is discarded: when the supervisor rests with the slot
\* empty, the runner it holds runs the program submitted last.
C4_LastSubmittedRuns ==
    (sup_pc = "idle" /\ new_program = None) =>
        /\ progthread /= 0
        /\ t_prog[progthread] = submitted[Len(submitted)]

C6_CancelAtYield ==
    /\ [][\A t \in Threads :
            /\ (/\ t_pc[t] \in {"show_check", "sleep"}
                /\ exit_requested[t_prog[t]]
                /\ t_pc'[t] /= t_pc[t])
               => /\ t_pc'[t] = "except"
                  /\ t_exc'[t] = "LedExit"
                  /\ data2' = data2
                  /\ last_write' = last_write
                  /\ frame_ready' = frame_ready
            /\ t_pc[t] \in {"except", "finally", "dead"}
               => /\ t_pc'[t] \in {"except", "finally", "dead"}
                  /\ t_pc'[t] /= t_pc[t] => <<data, data2, last_write, frame_ready>>'
                                              = <<data, data2, last_write, frame_ready>>
         ]_vars
    /\ [](\A t \in Threads :
            (t_exc[t] = "LedExit" /\ t_pc[t] \in {"finally", "dead"})
                => t_end[t] = "normal")

\* A runner that was cancelled at a yield point and has ended.
C6_Witness ==
    \E t \in Threads :
        t_exc[t] = "LedExit" /\ t_end[t] = "normal" /\ t_pc[t] = "dead"

\* C7: render_strip is called, in a tick of the renderer, on the first frame
\* of the list that the scan finds live, and on no other: every frame before
\* it was not live when the scan came to it.
C7_RendererPriority ==
    r_pc /= "scan" =>
        /\ Len(seen) = r_idx
        /\ seen[r_idx]
        /\ \A j \in 1..(r_idx - 1) : ~seen[j]

\* The music frame is rendered, the net frame, rendered before, having
\* timed out.
C7_Witness ==
    /\ r_pc = "flush"
    /\ RenderList[r_idx] = "music"
    /\ flushed = "net"

\* C8: a frame without timeout is live in every state; a frame with a
\* timeout is live exactly while less than the timeout has passed since its
\* latest commit, so it is live right after a commit; writes to the write
\* generation change no frame's liveness.
C8_Liveness ==
    /\ [](\A f \in Frames : Frame_active(f) = IsLive(f))
    /\ [](Frame_active("fallback"))
    /\ [][/\ \A f \in Frames :
                commit_time'[f] /= commit_time[f] => Frame_active(f)'
          /\ data' /= data =>
                \A f \in Frames : Frame_active(f)' = Frame_active(f)
         ]_vars

\* The main frame has been committed to and has timed out since.
C8_Witness ==
    /\ commit_time["main"] > 0
    /\ ~Frame_active("main")
    /\ data["main"] /= data2["main"]

\* C9: a datagram of opcode 0x05 writes to the write generation and commits
\* nothing; 0x05 datagrams followed by one 0x04 datagram make one commit,
\* whose generation holds the pixels of all of them.
WellFormed(d, op) == Len(d) >= 3 /\ d[1] = op
StartOf(d) == d[2] * 256 + d[3]
Covers(d, pixel) ==
    /\ pixel >= StartOf(d)
    /\ pixel - StartOf(d) < (Len(d) - 3) \div 3
ColourAt(d, pixel) ==
    LET k == 3 * (pixel - StartOf(d))
    IN rgb_to_24bit(d[4 + k], d[5 + k], d[6 + k], 0)
\* The pixels a sequence of 0x04/0x05 datagrams writes to a blank frame.
Written(log) ==
    [pixel \in PixelIdx |->
        LET S == {i \in 1..Len(log) : Covers(log[i], pixel)}
        IN IF S = {} THEN 0
           ELSE ColourAt(log[CHOOSE i \in S : \A j \in S : j <= i], pixel)]
AllDeferred(log) == \A i \in 1..Len(log) : WellFormed(log[i], 5)
DeferredThenCommit(log) ==
    /\ Len(log) >= 1
    /\ WellFormed(log[Len(log)], 4)
    /\ \A i \in 1..(Len(log) - 1) : WellFormed(log[i], 5)

C10_SetAllCommits ==
    LET log == rx_log["net"]
        d == log[Len(log)]
    IN (Len(log) >= 1 /\ Len(d) = 4 /\ d[1] = 1) =>
        /\ data["net"] = [i \in PixelIdx |-> rgb_to_24bit(d[2], d[3], d[4], 0)]
        /\ s_pc["net"] \in {"stamp", "copy", "set", "recv"}
        /\ s_pc["net"] = "recv" => data2["net"] = data["net"]

\* C11: a 0x03 datagram with k complete triplets overwrites pixels 0..k-1 of
\* the write generation with the encoded triplets, a 0x04 datagram with start
\* index s overwrites pixels s..s+k-1, indexes from the size on being
\* ignored; every other pixel is unchanged and exactly one commit follows.
Committing(d) == (Len(d) >= 1 /\ d[1] = 3) \/ (Len(d) >= 3 /\ d[1] = 4)
HeaderLen(d) == IF d[1] = 3 THEN 1 ELSE 3
FirstPixel(d) == IF d[1] = 3 THEN 0 ELSE d[2] * 256 + d[3]
Triplets(d) == (Len(d) - HeaderLen(d)) \div 3
Overwritten(buf, d) ==
    [pixel \in PixelIdx |->
        LET j == pixel - FirstPixel(d)
            at == HeaderLen(d) + 3 * j
        IN IF j >= 0 /\ j < Triplets(d)
           THEN rgb_to_24bit(d[at + 1], d[at + 2], d[at + 3], 0)
           ELSE buf[pixel]]
CommittingIn(log) == Cardinality({i \in 1..Len(log) : Committing(log[i])})

C11_OverwriteThenCommit ==
    /\ [][\A d \in Datagrams :
            (rx_log'["net"] = Append(rx_log["net"], d) /\ Committing(d)) =>
                /\ data'["net"] = Overwritten(data["net"], d)
                /\ data2' = data2
                /\ s_pc'["net"] = "stamp"
         ]_vars
    /\ [](commit_count["net"] =
            CommittingIn(rx_log["net"])
            - (IF s_pc["net"] \in {"stamp", "copy"} THEN 1 ELSE 0))
    /\ [](s_pc["net"] = "set" => data2["net"] = data["net"])

\* A 0x03 datagram of two triplets and a 0x04 datagram for the last pixel
\* have been received and committed.
C11_Witness ==
    LET log == rx_log["net"] IN
    /\ Len(log) = 2
    /\ log[1] = <<3>> \o Red \o Blue
    /\ log[2] = <<4, 0, Pixels - 1>> \o Red
    /\ s_pc["net"] = "recv"
    /\ commit_count["net"] = 2
    /\ data2["net"][0] = rgb_to_24bit(255, 0, 0, 0)
    /\ data2["net"][Pixels - 1] = rgb_to_24bit(255, 0, 0, 0)

\* C12: no non-empty datagram faults the server program: whatever its length
\* and first byte (the well-formed 0x01 datagram of C10 left aside), the
\* program does not enter its backoff path.
C12_MalformedNeverFaults ==
    LET log == rx_log["net"]
        d == log[Len(log)]
    IN (Len(log) >= 1 /\ Len(d) >= 1 /\ ~(d[1] = 1 /\ Len(d) = 4)) =>
        s_pc["net"] /= "backoff"

\* C13: a fault of the receive loop does not end the server program: after
\* the backoff it binds again and waits in recvfrom for the next datagram;
\* the fault and the recovery leave the committed generation as it was; the
\* server program's thread never ends.
C13_FaultRecovery ==
    /\ (s_pc["net"] = "backoff") ~> (s_pc["net"] = "recv")
    /\ [][(s_pc'["net"] = "backoff" \/ s_pc["net"] \in {"backoff", "bind"}) =>
            /\ data2' = data2
            /\ last_write' = last_write
            /\ frame_ready' = frame_ready
         ]_vars
    /\ [](s_pc["net"] /= "dead")

\* After a datagram that faulted, the server program has received another
\* one and committed it.
C13_Witness ==
    LET log == rx_log["net"] IN
    /\ Len(log) = 2
    /\ log[1] = <<4>>
    /\ log[2] = <<3>> \o Red
    /\ s_pc["net"] = "recv"
    /\ commit_count["net"] = 1
    /\ data2["net"][0] = rgb_to_24bit(255, 0, 0, 0)

\* C14: brightness_pct is an integer in 0..100 after any brightness messages;
\* a message whose payload is an integer in 0..100 sets it to that integer,
\* any other message (an integer out of range, no integer) leaves it.
C14_BrightnessValidated ==
    /\ [](brightness_pct \in 0..100)
    /\ [][\A m \in BrightnessPayloads :
            ctl_log' = Append(ctl_log, [topic |-> "brightness", payload |-> m]) =>
                brightness_pct' = IF m.valid /\ m.value \in 0..100
                                  THEN m.value
                                  ELSE brightness_pct
         ]_vars

\* Brightness 50 was set and a later 101 was rejected.
C14_Witness ==
    /\ Len(ctl_log) = 2
    /\ ctl_log[1] = [topic |-> "brightness", payload |-> Numeral(<<"5", "0">>, TRUE, 50)]
    /\ ctl_log[2].topic = "brightness"
    /\ ctl_log[2].payload.value = 101
    /\ brightness_pct = 50

\* C15: rgb_to_24bit returns (w' << 24) | (g' << 16) | (r' << 8) | b' where
\* each primed channel is floor(channel * brightness / 100), so each byte of
\* the result is that floor.
FloorScale(c) == (c * brightness_pct) \div 100
C15_EncodingIsFloor ==
    Len(enc_in) = 4 =>
        /\ enc_out = FloorScale(enc_in[4]) * 2^24 + FloorScale(enc_in[2]) * 2^16
                      + FloorScale(enc_in[1]) * 2^8 + FloorScale(enc_in[3])
        /\ (enc_out \div 2^24) % 256 = FloorScale(enc_in[4])
        /\ (enc_out \div 2^16) % 256 = FloorScale(enc_in[2])
        /\ (enc_out \div 2^8) % 256 = FloorScale(enc_in[1])
        /\ enc_out % 256 = FloorScale(enc_in[3])

\* C16: Frame.set_pixel with an index outside 0..size-1, negative ones
\* included, raises nothing and leaves the write generation as it is; with an
\* index inside, it sets that slot alone; the committed generation is
\* unchanged.
C16_OutOfRangeIgnored ==
    [][\A t \in Threads :
        (/\ t_pc[t] = "pk_key"
         /\ t_pc'[t] /= "pk_key"
         /\ HasKey(pk_data, Head(pk_iter))) =>
            LET e == pk_data[CHOOSE i \in 1..Len(pk_data) :
                                 pk_data[i].key = Head(pk_iter)]
                c == rgb_to_24bit(e.rgb[1], e.rgb[2], e.rgb[3], 0)
            IN /\ t_pc'[t] = "pk_sleep"
               /\ data2' = data2
               /\ data'["main"] = IF e.index \in PixelIdx
                                  THEN [data["main"] EXCEPT ![e.index] = c]
                                  ELSE data["main"]
     ]_vars

\* The numeric control writes to one topic, in the order received.
ValidWrites(topic) ==
    SelectSeq(ctl_log, LAMBDA e : e.topic = topic /\ e.payload.valid)
LastWritten(topic) == ValidWrites(topic)[Len(ValidWrites(topic))].payload.value

\* C17: a value a control handler wrote to a parameter of the rainbow preset
\* is the value its loop uses from then on, whether the preset was running at
\* the write or is started after it, until the next write to that parameter.
C17_ParamPersistent ==
    \A t \in Threads :
        (Kind(t_prog[t]) = "rainbow" /\ t_pc[t] = "body") =>
            /\ ValidWrites("rainbow/multiplier") /= <<>> =>
                   rb_multiplier = LastWritten("rainbow/multiplier")
            /\ ValidWrites("rainbow/speed") /= <<>> =>
                   rb_speed = LastWritten("rainbow/speed")

\* The two updates of the claim, with disjoint indexes: the first pixel, then
\* the last one.
FirstPost == <<Entry(KeyOf(0), 0, <<10, 20, 30>>)>>
SecondPost == <<Entry(KeyOf(Pixels - 1), Pixels - 1, <<0, 0, 255>>)>>
BothPosted ==
    /\ Len(pk_log) = 2
    /\ pk_log[1] = [data |-> FirstPost, running |-> TRUE]
    /\ pk_log[2] = [data |-> SecondPost, running |-> TRUE]
BothCommitted ==
    /\ data2["main"][0] = rgb_to_24bit(10, 20, 30, 0)
    /\ data2["main"][Pixels - 1] = rgb_to_24bit(0, 0, 255, 0)

\* The pixel picker's runner thread has left the loop.
PickerEnded ==
    \E t \in Threads :
        Kind(t_prog[t]) = "pixelpicker" /\ t_pc[t] \in {"except", "finally", "dead"}

\* C18: two pixel maps with disjoint indexes posted while the pixel picker
\* runs are both applied to the main frame and committed, whatever the
\* interleaving of the posts with the loop, as long as the program runs on
\* and no root message asks for another one.
C18_UpdatesQueued == BothPosted ~> (BothCommitted \/ PickerEnded \/ msgs > 1)

\* The loop of runner t raised a failure other than the cancellation signal.
Faulted(t) == t_exc[t] \notin {"none", "LedExit"}

\* C19: a runner whose program's loop() raised a failure other than LedExit
\* terminates and does not run the program again; the committed generation
\* of the main frame stays as it was at the fault while that runner is the
\* one started last; and a program submitted afterwards is still started,
\* stop() on the ended runner returning.
C19_FaultEndsRunner ==
    /\ [](\A t \in Threads :
            /\ Faulted(t) => t_pc[t] \in {"except", "finally", "dead"}
            /\ t_end[t] = "fault" => t_pc[t] \in {"finally", "dead"})
    /\ [][\A t \in Threads :
            (Faulted(t) /\ t = nthreads) => data2'["main"] = data2["main"]]_vars
    /\ \A t \in Threads : (t_pc[t] = "except" /\ Faulted(t)) ~> (t_pc[t] = "dead")
    /\ \A t \in Threads :
           (/\ Faulted(t)
            /\ progthread = t
            /\ sup_pc = "idle"
            /\ new_program /= None
            /\ nthreads < MaxThreads)
               ~> (t_pc[t] = "dead" /\ progthread > t /\ Alive(progthread))

\* The pixel picker's runner ended on a KeyError, and the static colour
\* submitted next has been started and has committed.
C19_Witness ==
    /\ t_exc[1] = "KeyError"
    /\ t_end[1] = "fault"
    /\ t_pc[1] = "dead"
    /\ progthread = 2
    /\ Kind(t_prog[2]) = "static"
    /\ t_pc[2] = "sleep"
    /\ data2["main"] = [i \in PixelIdx |-> rgb_to_24bit(255, 0, 0, 0)]

\* C20: render_strip writes to the strip and flushes it only when the
\* frame's new-data signal is pending, and clears the signal when it does;
\* called with no signal pending it changes neither the strip nor the frame.
\* So the flushes performed for a frame never outnumber its commits.
C20_NoRedundantPush ==
    /\ [](/\ \A f \in Servers : flush_count[f] <= commit_count[f]
          /\ r_pc = "clear" => frame_ready[RenderList[r_idx]])
    /\ [][/\ strip_buf' /= strip_buf => r_pc = "copy"
          /\ (shown' /= shown \/ flush_count' /= flush_count) => r_pc = "flush"
          /\ (r_pc = "clear" /\ r_pc' /= "clear") =>
                 ~frame_ready'[RenderList[r_idx]]
          /\ (r_pc = "is_set" /\ r_pc' /= "is_set"
                  /\ ~frame_ready[RenderList[r_idx]]) =>
                 /\ r_pc' = "scan"
                 /\ UNCHANGED <<strip_buf, shown, flush_count, data, data2,
                                frame_ready, last_write>>
       ]_vars

\* The one commit of the net frame was flushed, and the renderer polls the
\* frame again, still active, with no signal pending.
C20_Witness ==
    /\ commit_count["net"] = 1
    /\ flush_count["net"] = 1
    /\ r_pc = "is_set"
    /\ RenderList[r_idx] = "net"
    /\ ~frame_ready["net"]

\* What the payload of a root message names: the string it decodes to, as
\* JSON or else as sent; "" when it decodes to no string.
Named(text) == IF RootData(text)[1] = "str" THEN RootData(text)[2] ELSE ""

\* C21: a root payload that names a key of presets submits that instance;
\* otherwise one that parses as a colour submits a new StaticColour of the
\* main frame; otherwise the message is dropped, the pending and the running
\* program, the brightness and the preset parameters unchanged, and later
\* messages are still handled.
C21_RootDispatch ==
    [][\A text \in RootTexts :
        ctl_log' = Append(ctl_log, [topic |-> "root", payload |-> text]) =>
            /\ mqtt_loop' = "running"
            /\ IF Named(text) \in PresetNames
               THEN new_program' = presets[Named(text)]
               ELSE IF parse_colour(Named(text)) /= None
               THEN /\ Kind(new_program') = "static"
                    /\ new_program' /= new_program
                    /\ new_program' \notin {t_prog[t] : t \in Threads}
                    /\ args'[new_program'] =
                           rgb_to_24bit(parse_colour(Named(text))[1],
                                        parse_colour(Named(text))[2],
                                        parse_colour(Named(text))[3], 0)
               ELSE UNCHANGED <<new_program, t_prog, t_pc, brightness_pct,
                                rb_multiplier, rb_speed, ch_n, ch_speed, pk_data>>
     ]_vars

\* The first frame of the renderer's list that is active.
FirstLive(f) ==
    \E k \in 1..Len(RenderList) :
        /\ RenderList[k] = f
        /\ Frame_active(f)
        /\ \A j \in 1..(k - 1) : ~Frame_active(RenderList[j])

\* A runner is inside Frame.show of the main frame.
InShow == \E t \in Threads : t_pc[t] \in {"stamp", "copy", "set"}

\* The strip shows the committed generation of the main frame, flushed from
\* it, and no signal is pending.
MainRendered ==
    /\ flushed = "main"
    /\ shown = data2["main"]
    /\ ~frame_ready["main"]

\* C22: a commit to the main frame that is followed by no further commit,
\* the frame remaining the first live one, is eventually flushed to the strip
\* as committed; and the signal is never left cleared with the latest
\* committed generation not on the strip.
C22_NoLostCommit ==
    /\ (frame_ready["main"] /\ ~InShow)
           ~> (MainRendered \/ InShow \/ ~FirstLive("main"))
    /\ [](( /\ commit_time["main"] > 0
            /\ ~frame_ready["main"]
            /\ ~InShow
            /\ r_pc \notin {"copy", "flush"} )
              => (flushed = "main" /\ shown = data2["main"]))

\* The rainbow has committed two generations, and the strip shows the one
\* committed last, flushed from the main frame, the first live one.
C22_Witness ==
    /\ MainRendered
    /\ FirstLive("main")
    /\ ~InShow
    /\ Cardinality(commits["main"]) >= 3
    /\ shown /= Blank

\* Runner t executes Chase.loop.
InChaseLoop(t) ==
    /\ Kind(t_prog[t]) = "chase"
    /\ t_pc[t] \in {"ch_while", "ch_for", "ch_body", "stamp", "copy", "set",
                    "ch_sleep"}

\* C23: whatever values the chase topics have written, the running Chase
\* program comes in finitely many steps to a cancellation point (the check
\* of show()) or terminates, so that a stop() by the supervisor returns.
C23_ChaseCancellable ==
    \A t \in Threads :
        InChaseLoop(t) ~> (t_pc[t] \in {"show_check", "except", "finally", "dead"})

====
